---- MODULE Spec2Model ----
(***************************************************************************)
(* One invocation of lambda_handler (src/src/lambda_function.py): the      *)
(* intent is read, the media service is searched, the detail of the first  *)
(* result is fetched, the request payload is built and POSTed, and the     *)
(* outcome is turned into a spoken text.  The media service is the         *)
(* environment: each of its three replies is chosen nondeterministically.  *)
(***************************************************************************)
EXTENDS Integers, Sequences, FiniteSets, TLC

VARIABLES event, pc, media_title, request_all_seasons, calls,
          search_response, detail_response, request_response,
          media_type, detail_data, request_data, result

vars == <<event, pc, media_title, request_all_seasons, calls,
          search_response, detail_response, request_response,
          media_type, detail_data, request_data, result>>

(* ------------------------------ bounds -------------------------------- *)
\* longest season list of a detail reply
MaxSeasons == 2
\* highest season number of a detail reply
MaxSeasonNo == 2
\* longest result list of a search reply
MaxResults == 1

(* ------------------------- JSON / Python values ------------------------ *)
Absent == [t |-> "absent"]
Null == [t |-> "null"]
IntV(n) == [t |-> "int", iv |-> n]
\* a float, held in tenths: FloatV(25) is 2.5
FloatV(n) == [t |-> "float", fv |-> n]
StrV(s) == [t |-> "str", sv |-> s]
BoolV(b) == [t |-> "bool", bv |-> b]
ListV(q) == [t |-> "list", lv |-> q]
ObjV(i, d) == [t |-> "obj", imdbId |-> i, tvdbId |-> d]

\* dict.get(key, default): the default only for a missing key
GetOr(v, default) == IF v = Absent THEN default ELSE v

\* Python truthiness of a value (Absent is what dict.get returns: None)
Truthy(v) ==
    CASE v.t = "int" -> v.iv # 0
      [] v.t = "float" -> v.fv # 0
      [] v.t = "str" -> v.sv # ""
      [] v.t = "bool" -> v.bv
      [] v.t = "list" -> Len(v.lv) > 0
      [] v.t = "obj" -> TRUE
      [] OTHER -> FALSE

\* isinstance(v, (int, float)); bool is a subclass of int
IsIntOrFloat(v) == v.t \in {"int", "float", "bool"}

\* int(v) for a number: truncation toward zero
PyInt(v) ==
    CASE v.t = "int" -> v.iv
      [] v.t = "bool" -> IF v.bv THEN 1 ELSE 0
      [] v.t = "float" -> IF v.fv >= 0 THEN v.fv \div 10 ELSE -((-v.fv) \div 10)

\* str.lower() on the slot values in use
Lower(s) ==
    CASE s = "True" -> "true"
      [] s = "TRUE" -> "true"
      [] OTHER -> s

\* urllib.parse.quote on the titles in use
Quote(s) ==
    CASE s = "The Wire" -> "The%20Wire"
      [] OTHER -> s

\* f"{v}" of a title value: None prints as "None"
FmtTitle(v) == IF v.t = "str" THEN v.sv ELSE "None"

(* ------------------------------ outcomes ------------------------------- *)
NoResult == [kind |-> "none", text |-> <<>>, shouldEndSession |-> FALSE, exc |-> ""]

\* build_response: the envelope with the spoken text
build_response(output) ==
    [kind |-> "response", text |-> output, shouldEndSession |-> TRUE, exc |-> ""]

\* an exception that leaves lambda_handler
Fault(e) == [kind |-> "fault", text |-> <<>>, shouldEndSession |-> FALSE, exc |-> e]

NotIntentText == <<"I'm sorry, I can only handle intent requests.">>
NoTitleText == <<"Please provide the title of the movie or TV show.">>
\* variant: the URL-encoded query is interpolated instead of the title
NotFoundText_encoded(title) ==
    <<"I'm sorry, but I couldn't find any media matching '", Quote(title), "'.">>
NotFoundText(title) ==
    <<"I'm sorry, but I couldn't find any media matching '", title, "'.">>
AllSeasonsText(title) ==
    <<"I have successfully added all seasons of '", title, "' to your requests.">>
LatestSeasonText(title) ==
    <<"I have successfully added the latest season of '", title, "' to your requests.">>
MovieText(title) ==
    <<"I have successfully added '", title, "' to your requests.">>
RejectedText == <<"I couldn't add your request. Please check the details and try again.">>

(* ------------------------------- replies ------------------------------- *)
NoReply == [kind |-> "none"]
\* requests raises ConnectionError or Timeout: there is no response
ConnFailures == {[kind |-> "conn", exc |-> "ConnectionError"],
                 [kind |-> "conn", exc |-> "Timeout"]}
ErrorStatuses == {404, 500}
SuccessStatuses == {200, 201, 204}
Bodies == {"", "upstream body"}
HttpErrors == {[kind |-> "http", status |-> s, text |-> b, json |-> Null] :
                  s \in ErrorStatuses, b \in Bodies}

\* Response.raise_for_status raises HTTPError for 4xx and 5xx
RaisesForStatus(r) == r.status >= 400 /\ r.status < 600

\* the RequestException a reply raises, if any: e.response is None when
\* there was no reply
RaisedBy(r) ==
    IF r.kind = "conn" THEN [raised |-> TRUE, msg |-> r.exc, response |-> NoReply]
    ELSE IF RaisesForStatus(r) THEN [raised |-> TRUE, msg |-> "HTTPError", response |-> r]
    ELSE [raised |-> FALSE, msg |-> "", response |-> NoReply]

\* the except clause: hasattr(e, 'response') holds for every
\* RequestException, and e.response.text of None raises AttributeError
HandleRequestException(e) ==
    IF "response" \in DOMAIN e
    THEN IF e.response = NoReply
         THEN Fault("AttributeError")
         ELSE build_response(<<"An error occurred: ", e.msg,
                               " Server response: ", e.response.text>>)
    ELSE build_response(<<"An error occurred: ", e.msg>>)

(* ------------------------------- inputs -------------------------------- *)
RequestTypes == {"IntentRequest", "LaunchRequest"}
\* the MediaTitle slot: missing or without a value, or a spoken title
TitleSlots == {Absent, StrV(""), StrV("The Wire")}
\* the 'all' slot
AllSlots == {Absent, StrV("true"), StrV("True"), StrV("false")}
Events == [type : RequestTypes, MediaTitle : TitleSlots, all : AllSlots]

NoPayload == [built |-> FALSE]

Init ==
    /\ event \in Events
    /\ pc = "start"
    /\ media_title = ""
    /\ request_all_seasons = FALSE
    /\ calls = <<>>
    /\ search_response = NoReply
    /\ detail_response = NoReply
    /\ request_response = NoReply
    /\ media_type = ""
    /\ detail_data = Null
    /\ request_data = NoPayload
    /\ result = NoResult

\* lines 60-73 and the search GET of line 91
Receive ==
    /\ pc = "start"
    /\ LET title == GetOr(event.MediaTitle, StrV("")).sv
           all == Lower(GetOr(event.all, StrV("false")).sv) = "true"
       IN IF event.type # "IntentRequest"
          THEN /\ result' = build_response(NotIntentText)
               /\ pc' = "done"
               /\ UNCHANGED <<media_title, request_all_seasons, calls>>
          ELSE /\ media_title' = title
               /\ request_all_seasons' = all
               /\ IF title = ""
                  THEN /\ result' = build_response(NoTitleText)
                       /\ pc' = "done"
                       /\ UNCHANGED calls
                  ELSE /\ calls' = Append(calls, [op |-> "GET search", query |-> Quote(title)])
                       /\ pc' = "search"
                       /\ UNCHANGED result
    /\ UNCHANGED <<event, search_response, detail_response, request_response,
                   media_type, detail_data, request_data>>

(* ------------------------------- search -------------------------------- *)
MediaIds == {IntV(99)}
\* a search result: a movie, a tv show, a person (which has no title), and
\* results that lack mediaType, id or the title key
Item(mt, t, n, i) == [mediaType |-> mt, title |-> t, name |-> n, id |-> i]
SearchItems ==
    {Item(StrV("movie"), StrV("Heat"), Absent, IntV(99)),
     Item(StrV("tv"), Absent, StrV("The Wire"), IntV(99)),
     Item(StrV("person"), Absent, StrV("Dominic West"), IntV(99)),
     Item(Absent, StrV("Heat"), Absent, IntV(99)),
     Item(StrV("movie"), StrV("Heat"), Absent, Absent),
     Item(StrV("tv"), StrV("The Wire"), Absent, IntV(99))}
ItemLists == UNION {[1..n -> SearchItems] : n \in 0..MaxResults}
SearchData == {[results |-> x] : x \in {Absent, Null} \cup {ListV(q) : q \in ItemLists}}
SearchReplies ==
    ConnFailures \cup HttpErrors \cup
    {[kind |-> "http", status |-> 200, text |-> "json", json |-> d] : d \in SearchData}

\* line 101
TitleKey(mt) == IF mt = "tv" THEN "name" ELSE "title"

\* selected_item[title_key]
ItemTitle(item, mt) == IF TitleKey(mt) = "name" THEN item.name ELSE item.title

\* line 96: not search_data['results']
NoResults(results) == ~Truthy(results)

Stop(res) == [go |-> FALSE, result |-> res, media_type |-> "", id |-> Null]

\* lines 92-105: what the search reply leads to
SearchStep(r, title) ==
    IF RaisedBy(r).raised THEN Stop(HandleRequestException(RaisedBy(r)))
    ELSE IF r.json.results = Absent THEN Stop(Fault("KeyError"))
    ELSE IF NoResults(r.json.results) THEN Stop(build_response(NotFoundText(title)))
    ELSE LET item == r.json.results.lv[1]
         IN IF item.mediaType = Absent THEN Stop(Fault("KeyError"))
            ELSE IF ItemTitle(item, item.mediaType.sv) = Absent THEN Stop(Fault("KeyError"))
            ELSE IF item.id = Absent THEN Stop(Fault("KeyError"))
            ELSE [go |-> TRUE, result |-> NoResult,
                  media_type |-> item.mediaType.sv, id |-> item.id]

\* lines 91-107: the search reply arrives; the detail GET is issued
SearchReply ==
    /\ pc = "search"
    /\ \E r \in SearchReplies :
          LET s == SearchStep(r, media_title)
          IN /\ search_response' = r
             /\ result' = s.result
             /\ media_type' = s.media_type
             /\ IF s.go
                THEN /\ calls' = Append(calls, [op |-> "GET detail",
                                                mediaType |-> s.media_type, id |-> s.id])
                     /\ pc' = "detail"
                ELSE /\ pc' = "done"
                     /\ UNCHANGED calls
    /\ UNCHANGED <<event, media_title, request_all_seasons, detail_response,
                   request_response, detail_data, request_data>>

(* ------------------------------- detail -------------------------------- *)
TvdbValues == {Absent, Null, IntV(0), IntV(12345), FloatV(25), StrV("12345"), BoolV(TRUE)}
ExternalIds ==
    {Absent, Null} \cup
    {ObjV(i, d) : i \in {Absent, StrV("tt0306414")}, d \in TvdbValues}
\* a season list, each season by its seasonNumber
SeasonLists == UNION {[1..n -> 0..MaxSeasonNo] : n \in 0..MaxSeasons}
DetailData ==
    [id : {Absent} \cup MediaIds,
     title : {Absent, StrV("Heat")},
     name : {Absent, StrV("The Wire")},
     externalIds : ExternalIds,
     seasons : {Absent, Null} \cup {ListV(q) : q \in SeasonLists}]
DetailReplies ==
    ConnFailures \cup HttpErrors \cup
    {[kind |-> "http", status |-> 200, text |-> "json", json |-> d] : d \in DetailData}

\* lines 120-122: the tvdbId key of the payload, Absent when it is not set
TvdbField(ext) ==
    LET tvdbId == GetOr(ext.tvdbId, Null)
    IN IF Truthy(tvdbId) /\ IsIntOrFloat(tvdbId) THEN IntV(PyInt(tvdbId)) ELSE Absent

\* variant: the filter on season 0 is dropped
AllSeasons_unfiltered(seasons) == seasons
\* line 130: every season number except 0, in the detail's order
AllSeasons(seasons) == SelectSeq(seasons, LAMBDA n : n # 0)

\* max() of a non-empty sequence of numbers
SeqMax(q) == CHOOSE m \in {q[i] : i \in 1..Len(q)} : \A i \in 1..Len(q) : q[i] <= m

\* variant: an empty list instead of the string
NoSeasonInfo_empty == ListV(<<>>)
\* line 137: the payload's seasons when the detail lists no season
NoSeasonInfo == StrV("all")

\* lines 125-137: the seasons key of the payload; max() of no season number
\* raises ValueError
SeasonsField(mt, detail, all) ==
    IF mt # "tv" THEN [ok |-> TRUE, value |-> Absent]
    ELSE LET seasons == GetOr(detail.seasons, ListV(<<>>))
         IN IF Truthy(seasons)
            THEN IF all
                 THEN [ok |-> TRUE, value |-> ListV(AllSeasons(seasons.lv))]
                 ELSE IF AllSeasons(seasons.lv) = <<>>
                      THEN [ok |-> FALSE, value |-> Absent]
                      ELSE [ok |-> TRUE, value |-> ListV(<<SeqMax(AllSeasons(seasons.lv))>>)]
            ELSE [ok |-> TRUE, value |-> NoSeasonInfo]

Halt(res) == [go |-> FALSE, result |-> res, payload |-> NoPayload]

\* lines 108-137: what the detail reply leads to
DetailStep(r, mt, all) ==
    IF RaisedBy(r).raised THEN Halt(HandleRequestException(RaisedBy(r)))
    ELSE IF r.json.id = Absent THEN Halt(Fault("KeyError"))
    ELSE IF r.json.externalIds = Null THEN Halt(Fault("AttributeError"))
    ELSE LET ext == GetOr(r.json.externalIds, ObjV(Absent, Absent))
             sf == SeasonsField(mt, r.json, all)
         IN IF ~sf.ok THEN Halt(Fault("ValueError"))
            ELSE [go |-> TRUE, result |-> NoResult,
                  payload |-> [built |-> TRUE,
                               mediaType |-> mt,
                               mediaId |-> r.json.id,
                               imdbId |-> GetOr(ext.imdbId, Null),
                               tvdbId |-> TvdbField(ext),
                               seasons |-> sf.value]]

\* lines 107-143: the detail reply arrives; the payload is built and POSTed
DetailReply ==
    /\ pc = "detail"
    /\ \E r \in DetailReplies :
          LET s == DetailStep(r, media_type, request_all_seasons)
          IN /\ detail_response' = r
             /\ detail_data' = IF RaisedBy(r).raised THEN detail_data ELSE r.json
             /\ result' = s.result
             /\ request_data' = s.payload
             /\ IF s.go
                THEN /\ calls' = Append(calls, [op |-> "POST request", json |-> s.payload])
                     /\ pc' = "submit"
                ELSE /\ pc' = "done"
                     /\ UNCHANGED calls
    /\ UNCHANGED <<event, media_title, request_all_seasons, search_response,
                   request_response, media_type>>

(* ------------------------------- submit -------------------------------- *)
SubmitReplies ==
    ConnFailures \cup HttpErrors \cup
    {[kind |-> "http", status |-> s, text |-> b, json |-> Null] :
        s \in SuccessStatuses, b \in Bodies}

\* detail_data.get(title_key)
DetailTitle(detail, mt) == IF TitleKey(mt) = "name" THEN detail.name ELSE detail.title

\* variant: any 2xx status counts as created
IsCreated_any2xx(status) == status >= 200 /\ status < 300
\* line 151
IsCreated(status) == status = 201

\* lines 152-158
SuccessText(mt, all, title) ==
    IF mt = "tv"
    THEN IF all THEN AllSeasonsText(title) ELSE LatestSeasonText(title)
    ELSE MovieText(title)

\* lines 144-161: what the submit reply leads to
SubmitStep(r, mt, all, detail) ==
    IF RaisedBy(r).raised THEN HandleRequestException(RaisedBy(r))
    ELSE IF IsCreated(r.status)
         THEN build_response(SuccessText(mt, all, FmtTitle(DetailTitle(detail, mt))))
         ELSE build_response(RejectedText)

\* lines 143-161: the submit reply arrives
SubmitReply ==
    /\ pc = "submit"
    /\ \E r \in SubmitReplies :
          /\ request_response' = r
          /\ result' = SubmitStep(r, media_type, request_all_seasons, detail_data)
    /\ pc' = "done"
    /\ UNCHANGED <<event, media_title, request_all_seasons, calls, search_response,
                   detail_response, media_type, detail_data, request_data>>

Next == Receive \/ SearchReply \/ DetailReply \/ SubmitReply

Spec == Init /\ [][Next]_vars

(* ----------------------- vocabulary of the claims ---------------------- *)
\* the call was answered with a status that raise_for_status lets through
Succeeded(r) == r.kind = "http" /\ ~RaisesForStatus(r)
\* the call failed at transport level
Failed(r) == r.kind = "conn" \/ (r.kind = "http" /\ RaisesForStatus(r))

\* the detail GET succeeded for a tv item and its reply carries what the
\* payload's base fields need
TvDetail ==
    /\ Succeeded(detail_response)
    /\ media_type = "tv"
    /\ detail_data.id # Absent
    /\ detail_data.externalIds # Null

HasSeasons == detail_data.seasons.t = "list" /\ Len(detail_data.seasons.lv) > 0
NoSeasons == detail_data.seasons \in {Absent, Null, ListV(<<>>)}

SeasonSet(q) == {q[i] : i \in 1..Len(q)}
Count(q, n) == Cardinality({i \in 1..Len(q) : q[i] = n})
\* the payload's seasons are the one-element list of the greatest non-zero
\* season number of the detail
IsLatestOnly(p, q) ==
    /\ p.t = "list"
    /\ \E m \in SeasonSet(q) \ {0} :
          /\ \A n \in SeasonSet(q) \ {0} : n <= m
          /\ p.lv = <<m>>

Posted == \E i \in 1..Len(calls) : calls[i].op = "POST request"
Ops == [i \in 1..Len(calls) |-> calls[i].op]
Says(text) == result.kind = "response" /\ result.text = text
\* the spoken text is the sentence T of some title
SaysOf(T(_)) ==
    /\ result.kind = "response"
    /\ Len(result.text) = 3
    /\ result.text[1] = T("")[1]
    /\ result.text[3] = T("")[3]

(* -------------------------------- claims ------------------------------- *)
\* C1: every invocation ends with a response envelope; no error raised
\* during the request leaves lambda_handler uncaught.
C1_NoUncaughtFault == pc = "done" => result.kind = "response"

\* C2: a transport failure of the search, detail or submit call, with or
\* without an upstream response, ends in a spoken text naming the error,
\* with the upstream body appended only when there is one.
C2_TransportFailureIsSpoken ==
    \A r \in {search_response, detail_response, request_response} :
        Failed(r) =>
            IF r.kind = "http"
            THEN Says(<<"An error occurred: ", "HTTPError", " Server response: ", r.text>>)
            ELSE Says(<<"An error occurred: ", r.exc>>)

\* C3: for a tv detail with a non-empty season list and requestAllSeasons
\* false, the payload is built and its seasons are the one-element list of
\* the greatest season number other than 0.
C3_LatestSeasonIsMaxNonZero ==
    (TvDetail /\ HasSeasons /\ ~request_all_seasons) =>
        /\ request_data.built
        /\ IsLatestOnly(request_data.seasons, detail_data.seasons.lv)

\* C4 as stated: for a tv detail with a non-empty season list and
\* requestAllSeasons true, the payload's seasons are a list without 0, with
\* every other season number of the detail, and with no number twice.
C4_AllSeasonsNoDuplicates ==
    (TvDetail /\ HasSeasons /\ request_all_seasons) =>
        /\ request_data.built
        /\ request_data.seasons.t = "list"
        /\ 0 \notin SeasonSet(request_data.seasons.lv)
        /\ SeasonSet(detail_data.seasons.lv) \ {0} \subseteq SeasonSet(request_data.seasons.lv)
        /\ \A n \in SeasonSet(request_data.seasons.lv) : Count(request_data.seasons.lv, n) = 1

\* C4 amended: for a tv detail with a non-empty season list and
\* requestAllSeasons true, the payload's seasons are a list without 0 that
\* holds every other season number exactly as often as the detail's season
\* list does.
C4_AllSeasonsKeepNonZero ==
    (TvDetail /\ HasSeasons /\ request_all_seasons) =>
        /\ request_data.built
        /\ request_data.seasons.t = "list"
        /\ 0 \notin SeasonSet(request_data.seasons.lv)
        /\ \A n \in (SeasonSet(detail_data.seasons.lv) \cup SeasonSet(request_data.seasons.lv)) \ {0} :
              Count(request_data.seasons.lv, n) = Count(detail_data.seasons.lv, n)

\* C4 witness: all seasons of a detail listing 0 and a later season were
\* requested.
C4_Witness ==
    /\ TvDetail /\ HasSeasons /\ request_all_seasons
    /\ SeasonSet(detail_data.seasons.lv) = {0, 2}
    /\ request_data.built
    /\ request_data.seasons = ListV(<<2>>)

\* C5: a payload POSTed for a tv show whose detail lists seasons carries a
\* seasons list with at least one season number; the "all" sentinel is used
\* only when the detail lists no season.
C5_PostedTvPayloadCarriesSeason ==
    (Posted /\ media_type = "tv") =>
        /\ HasSeasons => (request_data.seasons.t = "list" /\ Len(request_data.seasons.lv) >= 1)
        /\ request_data.seasons = StrV("all") => NoSeasons

\* C6: for a tv detail whose season list is empty or missing, the payload's
\* seasons field is the string "all", whatever requestAllSeasons is.
C6_NoSeasonsGivesAllSentinel ==
    (TvDetail /\ NoSeasons) =>
        /\ request_data.built
        /\ request_data.seasons = StrV("all")

\* C6 witness: a detail with an empty season list was turned into a payload
\* although only the latest season was asked for.
C6_Witness ==
    /\ TvDetail
    /\ detail_data.seasons = ListV(<<>>)
    /\ ~request_all_seasons
    /\ request_data.built
    /\ request_data.seasons = StrV("all")

\* C7: the payload has tvdbId exactly when the detail's externalIds.tvdbId
\* is an integer or a float, and then it is that number as an integer.
C7_TvdbIdIffNumeric ==
    request_data.built =>
        LET v == GetOr(detail_data.externalIds, ObjV(Absent, Absent)).tvdbId
        IN /\ request_data.tvdbId # Absent <=> v.t \in {"int", "float"}
           /\ v.t \in {"int", "float"} => request_data.tvdbId = IntV(PyInt(v))

\* C8: a successful submit status other than 201 is answered with exactly
\* the rejection sentence, which holds no part of the upstream body; a
\* success sentence is spoken only for status 201.
C8_NonCreatedSuccessIsRejected ==
    /\ (Succeeded(request_response) /\ request_response.status # 201) =>
          /\ Says(RejectedText)
          /\ \A i \in 1..Len(result.text) : result.text[i] # request_response.text
    /\ (SaysOf(AllSeasonsText) \/ SaysOf(LatestSeasonText) \/ SaysOf(MovieText)) =>
          (request_response.kind = "http" /\ request_response.status = 201)

\* C8 witness: the POST was answered 204 with a body and the rejection
\* sentence was spoken.
C8_Witness ==
    /\ pc = "done"
    /\ Succeeded(request_response)
    /\ request_response.status = 204
    /\ request_response.text = "upstream body"
    /\ Says(RejectedText)

\* C9: the outbound calls are a prefix of search GET, detail GET, submit
\* POST; the detail GET follows only a successful search with results, the
\* POST only a successful detail GET; no call follows a failure; an empty
\* title issues no call; an empty result list ends with the NotFound
\* sentence carrying the title verbatim, after the search GET alone.
C9_CallsInOrderAtMostOnce ==
    /\ Ops \in {<<>>, <<"GET search">>, <<"GET search", "GET detail">>,
                <<"GET search", "GET detail", "POST request">>}
    /\ Len(calls) >= 2 =>
          /\ Succeeded(search_response)
          /\ search_response.json.results.t = "list"
          /\ Len(search_response.json.results.lv) > 0
    /\ Len(calls) >= 3 => Succeeded(detail_response)
    /\ Failed(search_response) => Len(calls) = 1
    /\ Failed(detail_response) => Len(calls) = 2
    /\ GetOr(event.MediaTitle, StrV("")).sv = "" => calls = <<>>
    /\ (Succeeded(search_response) /\ search_response.json.results = ListV(<<>>)) =>
          /\ pc = "done"
          /\ Len(calls) = 1
          /\ Says(<<"I'm sorry, but I couldn't find any media matching '",
                    event.MediaTitle.sv, "'.">>)

\* C9 witness: the search for a spoken title came back with no result.
C9_Witness ==
    /\ pc = "done"
    /\ event.MediaTitle = StrV("The Wire")
    /\ Succeeded(search_response)
    /\ search_response.json.results = ListV(<<>>)
    /\ Ops = <<"GET search">>

\* C10: the scope named in the success sentence is the scope of the POSTed
\* payload: "latest season" for the one-element list of the latest non-zero
\* season, "all seasons" for the "all" sentinel or the list of every
\* non-zero season, the unscoped sentence for a payload without seasons.
C10_SentenceScopeMatchesPayload ==
    /\ SaysOf(LatestSeasonText) =>
          /\ HasSeasons
          /\ IsLatestOnly(request_data.seasons, detail_data.seasons.lv)
    /\ SaysOf(AllSeasonsText) =>
          \/ request_data.seasons = StrV("all")
          \/ /\ HasSeasons
             /\ request_data.seasons = ListV(AllSeasons(detail_data.seasons.lv))
    /\ SaysOf(MovieText) => request_data.seasons = Absent
====
